---- MODULE Spec2Model ----
(***************************************************************************)
(* A model of src/analysis.py: the CACAnalysis class (constructor,         *)
(* perform_analysis, create_visualizations,                                 *)
(* generate_insights_and_recommendations) and the pipeline of main().      *)
(*                                                                         *)
(* Numbers.  The program computes with IEEE doubles (numpy float64).  The  *)
(* model computes with exact rationals <<n, d>> in lowest terms, d > 0,    *)
(* extended by the three special doubles the program can produce:          *)
(* <<1, 0>> is +inf, <<-1, 0>> is -inf and <<0, 0>> is nan.  The rounding   *)
(* error of a double (relative 2^-53) is below every tolerance the         *)
(* statements here use and is left out; the special values, division by    *)
(* zero, and numpy's round-half-to-even are modelled as numpy does them.   *)
(* A square root is kept exact as a pair <<sign, radicand>>, the number    *)
(* sign * sqrt(radicand).                                                  *)
(***************************************************************************)
EXTENDS Integers, Sequences, FiniteSets, TLC

(***************************************************************************)
(* Bounds of the model (not program constants).                            *)
(***************************************************************************)
\* longest observation sequence, besides the compiled-in one, that is tried
MaxLen == 3
\* the observation values tried, besides the compiled-in ones, are 0 .. MaxVal
MaxVal == 3
\* how often a client calls perform_analysis on one analyzer (SpecClient)
MaxCalls == 3

(***************************************************************************)
(* Extended rational arithmetic, as float64 arithmetic does it.            *)
(***************************************************************************)
AbsInt(i) == IF i < 0 THEN -i ELSE i

SgnInt(i) == IF i < 0 THEN -1 ELSE IF i = 0 THEN 0 ELSE 1

RECURSIVE GCD(_, _)
GCD(a, b) == IF b = 0 THEN a ELSE GCD(b, a % b)

LCM(a, b) == (a \div GCD(a, b)) * b

NaN == <<0, 0>>

PosInf == <<1, 0>>

Zero == <<0, 1>>

IsNaN(a) == a[2] = 0 /\ a[1] = 0

IsInf(a) == a[2] = 0 /\ a[1] # 0

IsFinite(a) == a[2] # 0

\* the rational n / d in lowest terms (d # 0)
Rat(n, d) ==
    LET g == GCD(AbsInt(n), AbsInt(d))
    IN  IF d < 0 THEN <<(-n) \div g, (-d) \div g>> ELSE <<n \div g, d \div g>>

FromInt(i) == <<i, 1>>

Sign(a) == SgnInt(a[1])

Neg(a) == <<-a[1], a[2]>>

Add(a, b) ==
    IF IsNaN(a) \/ IsNaN(b) THEN NaN
    ELSE IF IsInf(a) /\ IsInf(b) THEN (IF a = b THEN a ELSE NaN)
    ELSE IF IsInf(a) THEN a
    ELSE IF IsInf(b) THEN b
    ELSE LET l == LCM(a[2], b[2])
         IN  Rat(a[1] * (l \div a[2]) + b[1] * (l \div b[2]), l)

Sub(a, b) == Add(a, Neg(b))

Mul(a, b) ==
    IF IsNaN(a) \/ IsNaN(b) THEN NaN
    ELSE IF IsInf(a) \/ IsInf(b)
         THEN (IF Sign(a) * Sign(b) = 0 THEN NaN ELSE <<Sign(a) * Sign(b), 0>>)
    ELSE LET g1 == GCD(AbsInt(a[1]), b[2])
             g2 == GCD(AbsInt(b[1]), a[2])
         IN  Rat((a[1] \div g1) * (b[1] \div g2), (a[2] \div g2) * (b[2] \div g1))

\* float64 division: x / 0 is +-inf, 0 / 0 is nan, nothing is raised
Div(a, b) ==
    IF IsNaN(a) \/ IsNaN(b) THEN NaN
    ELSE IF IsInf(b) THEN (IF IsInf(a) THEN NaN ELSE Zero)
    ELSE IF IsInf(a) THEN <<Sign(a) * (IF Sign(b) < 0 THEN -1 ELSE 1), 0>>
    ELSE IF b[1] = 0 THEN (IF a[1] = 0 THEN NaN ELSE <<Sign(a), 0>>)
    ELSE Mul(a, <<SgnInt(b[1]) * b[2], AbsInt(b[1])>>)

\* a < b on finite values
Less(a, b) == a[1] * b[2] < b[1] * a[2]

Leq(a, b) == a[1] * b[2] <= b[1] * a[2]

AbsRat(a) == <<AbsInt(a[1]), a[2]>>

\* a variant of Round2 that cuts the digits after the second decimal
Round2_truncating(a) ==
    IF ~IsFinite(a) THEN a
    ELSE LET q == Mul(a, FromInt(100))
             k == SgnInt(q[1]) * (AbsInt(q[1]) \div q[2])
         IN  Rat(k, 100)

\* numpy.round(x, 2): round half to even at the second decimal; inf and nan
\* are returned as they are.  (On doubles a decimal tie that has no exact
\* binary form may fall either way; the statements about rounded values
\* allow for both.)
Round2(a) ==
    IF ~IsFinite(a) THEN a
    ELSE LET q == Mul(a, FromInt(100))
             f == q[1] \div q[2]
             r == q[1] - f * q[2]
             k == IF 2 * r < q[2] THEN f
                  ELSE IF 2 * r > q[2] THEN f + 1
                  ELSE IF f % 2 = 0 THEN f ELSE f + 1
         IN  Rat(k, 100)

\* exact square roots: <<s, q>> is s * sqrt(q), s in {-1, 0, 1}, q >= 0
SurdNaN == <<0, NaN>>

Sqrt(a) ==
    IF IsNaN(a) THEN SurdNaN
    ELSE IF IsInf(a) THEN <<1, PosInf>>
    ELSE <<SgnInt(a[1]), a>>

SurdIsNaN(s) == IsNaN(s[2])

\* s / a for a square root s and a rational a
SurdDiv(s, a) ==
    IF SurdIsNaN(s) \/ IsNaN(a) THEN SurdNaN
    ELSE IF IsInf(a) THEN (IF IsInf(s[2]) THEN SurdNaN ELSE <<0, Zero>>)
    ELSE IF IsInf(s[2]) THEN <<s[1] * (IF Sign(a) < 0 THEN -1 ELSE 1), PosInf>>
    ELSE IF a[1] = 0 THEN (IF s[1] = 0 THEN SurdNaN ELSE <<s[1], PosInf>>)
    ELSE <<s[1] * Sign(a), Div(s[2], Mul(a, a))>>

\* s * a for a square root s and a rational a
SurdMul(s, a) ==
    IF SurdIsNaN(s) \/ IsNaN(a) THEN SurdNaN
    ELSE IF IsInf(s[2]) \/ IsInf(a)
         THEN (IF s[1] * Sign(a) = 0 THEN SurdNaN ELSE <<s[1] * Sign(a), PosInf>>)
    ELSE IF s[1] * Sign(a) = 0 THEN <<0, Zero>>
    ELSE <<s[1] * Sign(a), Mul(s[2], Mul(a, a))>>

(***************************************************************************)
(* The numpy reductions perform_analysis and the constructor call.         *)
(***************************************************************************)
RECURSIVE SumSeq(_)
SumSeq(xs) == IF xs = <<>> THEN Zero ELSE Add(Head(xs), SumSeq(Tail(xs)))

\* a variant of np_mean that miscounts the observations by one
np_mean_miscounting(xs) == Div(SumSeq(xs), FromInt(Len(xs) + 1))

\* np.mean: sum / count; of an empty list 0.0 / 0 = nan (a warning, no raise)
np_mean(xs) == Div(SumSeq(xs), FromInt(Len(xs)))

RECURSIVE Insert(_, _)
Insert(x, sorted) ==
    IF sorted = <<>> THEN <<x>>
    ELSE IF Leq(x, Head(sorted)) THEN <<x>> \o sorted
    ELSE <<Head(sorted)>> \o Insert(x, Tail(sorted))

RECURSIVE Sorted(_)
Sorted(xs) == IF xs = <<>> THEN <<>> ELSE Insert(Head(xs), Sorted(Tail(xs)))

\* a variant of np_median that takes the middle of the list as it is given
np_median_unsorted(xs) ==
    LET n == Len(xs)
    IN  IF n = 0 THEN NaN
        ELSE IF n % 2 = 1 THEN np_mean(<<xs[(n + 1) \div 2]>>)
        ELSE np_mean(<<xs[n \div 2], xs[n \div 2 + 1]>>)

\* np.median: sort, then the mean of the middle element (odd count) or of
\* the two middle elements (even count); nan for an empty list
np_median(xs) ==
    LET n == Len(xs)
        s == Sorted(xs)
    IN  IF n = 0 THEN NaN
        ELSE IF n % 2 = 1 THEN np_mean(<<s[(n + 1) \div 2]>>)
        ELSE np_mean(<<s[n \div 2], s[n \div 2 + 1]>>)

\* a variant of np_std with ddof = 1, the sample standard deviation
np_std_sample(xs) ==
    LET m == np_mean(xs)
        d == [i \in 1..Len(xs) |-> Mul(Sub(xs[i], m), Sub(xs[i], m))]
    IN  Sqrt(Div(SumSeq(d), FromInt(Len(xs) - 1)))

\* a variant of np_std that leaves the mean out: the root mean square
np_std_rms(xs) ==
    Sqrt(np_mean([i \in 1..Len(xs) |-> Mul(xs[i], xs[i])]))

\* np.std with its default ddof = 0: sqrt(mean(abs(x - x.mean()) ** 2))
np_std(xs) ==
    LET m == np_mean(xs)
        d == [i \in 1..Len(xs) |-> Mul(Sub(xs[i], m), Sub(xs[i], m))]
    IN  Sqrt(np_mean(d))

\* a variant in which the reductions return nan for a zero-size array
zero_size_reduction_returns_nan(xs) == FALSE

\* np.min and np.max raise ValueError on a zero-size array
zero_size_reduction_raises(xs) == Len(xs) = 0

RECURSIVE np_min(_)
np_min(xs) ==
    IF Len(xs) = 0 THEN NaN
    ELSE IF Len(xs) = 1 THEN xs[1]
    ELSE LET m == np_min(Tail(xs)) IN IF Less(m, Head(xs)) THEN m ELSE Head(xs)

RECURSIVE np_max(_)
np_max(xs) ==
    IF Len(xs) = 0 THEN NaN
    ELSE IF Len(xs) = 1 THEN xs[1]
    ELSE LET m == np_max(Tail(xs)) IN IF Less(Head(xs), m) THEN m ELSE Head(xs)

(***************************************************************************)
(* The constants of CACAnalysis.__init__, and the inputs the model tries   *)
(* in their place.                                                         *)
(***************************************************************************)
\* self.target_cac = 150
TARGET_CAC == 150

\* self.quarterly_data; quarter i stands for the label 'Qi 2024'
QUARTERLY_DATA ==
    [Quarter |-> <<1, 2, 3, 4>>,
     CAC |-> <<Rat(22560, 100), Rat(22897, 100), Rat(23424, 100), Rat(23471, 100)>>]

Vals == {FromInt(v) : v \in 0..MaxVal}

\* an observation set: labels and values of the same length
Inputs ==
    {QUARTERLY_DATA} \cup
    UNION {{[Quarter |-> [i \in 1..n |-> i], CAC |-> c] : c \in [1..n -> Vals]} :
            n \in 0..MaxLen}

Targets == {FromInt(0), FromInt(32), FromInt(TARGET_CAC)}

(***************************************************************************)
(* class CACAnalysis                                                       *)
(***************************************************************************)
\* a variant of __init__ that caches the required figure of the comment on
\* line 31 instead of computing it
CACAnalysis_init_hardcoded(data, target) ==
    [quarterly_data |-> data,
     target_cac |-> target,
     average_cac |-> Rat(23088, 100)]

\* __init__ with the constants data and target: the average is computed
\* once and cached in self.average_cac
CACAnalysis_init(data, target) ==
    [quarterly_data |-> data,
     target_cac |-> target,
     average_cac |-> np_mean(data.CAC)]

\* pd.DataFrame(dict) raises ValueError when the columns differ in length
DataFrame_raises(data) == Len(data.Quarter) # Len(data.CAC)

\* lines 45-47: the table and its two derived columns
analysis_table(self) ==
    LET cac == self.quarterly_data.CAC
    IN  [Quarter |-> self.quarterly_data.Quarter,
         CAC |-> cac,
         Gap_to_Target |-> [i \in 1..Len(cac) |-> Sub(cac[i], self.target_cac)],
         Percentage_Above_Target |->
            [i \in 1..Len(cac) |->
                Round2(Mul(Div(Sub(cac[i], self.target_cac), self.target_cac),
                           FromInt(100)))]]

\* lines 53-64: the stats dictionary
analysis_stats(self) ==
    LET cac_values == self.quarterly_data.CAC
    IN  [Mean_CAC |-> np_mean(cac_values),
         Median_CAC |-> np_median(cac_values),
         Standard_Deviation |-> np_std(cac_values),
         Min_CAC |-> np_min(cac_values),
         Max_CAC |-> np_max(cac_values),
         Range |-> Sub(np_max(cac_values), np_min(cac_values)),
         Coefficient_of_Variation |->
            SurdMul(SurdDiv(np_std(cac_values), np_mean(cac_values)), FromInt(100)),
         Total_Gap_from_Target |-> Sub(self.average_cac, self.target_cac),
         Percentage_Above_Target |->
            Mul(Div(Sub(self.average_cac, self.target_cac), self.target_cac),
                FromInt(100))]

\* a variant of perform_analysis that sorts cac_values, the list held by
\* self.quarterly_data, in place before the statistics
perform_analysis_sorting_in_place(self) ==
    LET sorted == [self EXCEPT !.quarterly_data.CAC = Sorted(@)]
    IN  [raised |-> DataFrame_raises(self.quarterly_data)
                    \/ zero_size_reduction_raises(self.quarterly_data.CAC),
         df |-> analysis_table(self),
         stats |-> analysis_stats(sorted),
         self |-> sorted]

\* perform_analysis: what it returns (or that it raised), and the analyzer
\* as it leaves it; the method assigns to no attribute of self
perform_analysis(self) ==
    [raised |-> DataFrame_raises(self.quarterly_data)
                \/ zero_size_reduction_raises(self.quarterly_data.CAC),
     df |-> analysis_table(self),
     stats |-> analysis_stats(self),
     self |-> self]

(***************************************************************************)
(* State.                                                                  *)
(*   data_in, target_in  the constants the constructor assigns             *)
(*   pc        where main() is                                             *)
(*   analyzer  <<>> before the constructor ran, then <<the object>>        *)
(*   report    <<>> until perform_analysis returned, then                  *)
(*             <<[df, stats]>>, the value it returned last                 *)
(*   first     the value the first call of perform_analysis returned       *)
(*   calls     how many calls of perform_analysis returned                 *)
(*   files     the chart files written, in the order they were written     *)
(*   console   the headings printed, in the order they were printed        *)
(***************************************************************************)
VARIABLES data_in, target_in, pc, analyzer, report, first, calls, files, console

vars == <<data_in, target_in, pc, analyzer, report, first, calls, files, console>>

TREND_FILE == "cac_trend_analysis.html"

GAP_FILE == "cac_gap_analysis.html"

DASHBOARD_FILE == "cac_performance_dashboard.html"

Init ==
    /\ data_in \in Inputs
    /\ target_in \in Targets
    /\ pc = "main"
    /\ analyzer = <<>>
    /\ report = <<>>
    /\ first = <<>>
    /\ calls = 0
    /\ files = <<>>
    /\ console = <<>>

\* [v] * n
Repeat(v, n) == [i \in 1..n |-> v]

\* main, lines 225-229: the banner, then analyzer = CACAnalysis()
Construct ==
    /\ pc = "main"
    /\ analyzer' = <<CACAnalysis_init(data_in, target_in)>>
    /\ console' = console \o <<"Starting Financial Services CAC Analysis...",
                               "Verification - Average CAC">>
    /\ pc' = "constructed"
    /\ UNCHANGED <<data_in, target_in, report, first, calls, files>>

\* a call of analyzer.perform_analysis() that leaves the caller at `next`
\* when it returns; an exception is not caught anywhere and ends the run.
\* The two headings before the statistics are printed before np.min is
\* reached.
CallPerformAnalysis(next) ==
    LET r == perform_analysis(analyzer[1])
    IN  /\ analyzer' = <<r.self>>
        /\ IF r.raised
           THEN /\ pc' = "aborted"
                /\ console' = console \o <<"FINANCIAL SERVICES CAC ANALYSIS - 2024">>
                /\ UNCHANGED <<report, first, calls>>
           ELSE /\ pc' = next
                /\ report' = <<[df |-> r.df, stats |-> r.stats]>>
                /\ first' = IF calls = 0 THEN report' ELSE first
                /\ calls' = calls + 1
                /\ console' = console \o <<"FINANCIAL SERVICES CAC ANALYSIS - 2024",
                                           "Statistical Analysis:">>
        /\ UNCHANGED <<data_in, target_in, files>>

\* main, line 232: df, stats = analyzer.perform_analysis()
Analyse ==
    /\ pc = "constructed"
    /\ calls = 0
    /\ CallPerformAnalysis("trend")

\* fig.write_html(name): the file is written, or the write raises (an I/O
\* failure), which nothing catches
WriteChart(at, next, name, series, saved) ==
    /\ pc = at
    /\ \E ok \in BOOLEAN :
          IF ok
          THEN /\ files' = Append(files, [name |-> name, series |-> series])
               /\ console' = Append(console, saved)
               /\ pc' = next
          ELSE /\ pc' = "aborted"
               /\ UNCHANGED <<files, console>>
    /\ UNCHANGED <<data_in, target_in, analyzer, report, first, calls>>

\* a variant of the trend chart step that catches a failed write and goes on
WriteTrend_swallowing_failure ==
    /\ pc = "trend"
    /\ \E ok \in BOOLEAN :
          IF ok
          THEN /\ files' = Append(files, [name |-> TREND_FILE,
                                          series |-> <<report[1].df.CAC>>])
               /\ console' = Append(console, "Trend analysis chart saved")
          ELSE UNCHANGED <<files, console>>
    /\ pc' = "gap"
    /\ UNCHANGED <<data_in, target_in, analyzer, report, first, calls>>

\* create_visualizations, lines 78-116: the trend chart
WriteTrend ==
    LET self == analyzer[1]
        df == report[1].df
    IN  WriteChart("trend", "gap", TREND_FILE,
                   <<df.CAC, Repeat(self.target_cac, Len(df.CAC)),
                     Repeat(self.average_cac, Len(df.CAC))>>,
                   "Trend analysis chart saved")

\* create_visualizations, lines 118-138: the gap chart
WriteGap ==
    LET df == report[1].df
    IN  WriteChart("gap", "dashboard", GAP_FILE, <<df.Gap_to_Target>>,
                   "Gap analysis chart saved")

\* a variant of the dashboard step that reorders the table it was given in
\* place
WriteDashboard_reordering_df ==
    LET df == report[1].df
        Rev(q) == [i \in 1..Len(q) |-> q[Len(q) + 1 - i]]
    IN  /\ pc = "dashboard"
        /\ report' = <<[report[1] EXCEPT !.df =
                          [Quarter |-> Rev(df.Quarter), CAC |-> Rev(df.CAC),
                           Gap_to_Target |-> Rev(df.Gap_to_Target),
                           Percentage_Above_Target |->
                               Rev(df.Percentage_Above_Target)]]>>
        /\ files' = Append(files, [name |-> DASHBOARD_FILE,
                                   series |-> <<report'[1].df.CAC>>])
        /\ console' = Append(console, "Performance dashboard saved")
        /\ pc' = "insights"
        /\ UNCHANGED <<data_in, target_in, analyzer, first, calls>>

\* create_visualizations, lines 140-183: the dashboard and its metrics table
WriteDashboard ==
    LET self == analyzer[1]
        df == report[1].df
        gap == Sub(self.average_cac, self.target_cac)
    IN  WriteChart("dashboard", "insights", DASHBOARD_FILE,
                   <<df.CAC, Repeat(self.target_cac, Len(df.CAC)),
                     df.Gap_to_Target, df.Percentage_Above_Target,
                     <<self.average_cac, self.target_cac, gap,
                       Mul(Div(gap, self.target_cac), FromInt(100)),
                       df.CAC[Len(df.CAC)]>> >>,
                   "Performance dashboard saved")

\* generate_insights_and_recommendations: prints only
Insights ==
    /\ pc = "insights"
    /\ console' = Append(console, "BUSINESS INSIGHTS & RECOMMENDATIONS")
    /\ pc' = "summary"
    /\ UNCHANGED <<data_in, target_in, analyzer, report, first, calls, files>>

\* main, lines 240-248: the final summary
Complete ==
    /\ pc = "summary"
    /\ console' = Append(console, "ANALYSIS COMPLETE")
    /\ pc' = "done"
    /\ UNCHANGED <<data_in, target_in, analyzer, report, first, calls, files>>

Next ==
    \/ Construct
    \/ Analyse
    \/ WriteTrend
    \/ WriteGap
    \/ WriteDashboard
    \/ Insights
    \/ Complete

\* the program: one run of main()
Spec == Init /\ [][Next]_vars

(***************************************************************************)
(* A client that constructs one analyzer and calls perform_analysis on it  *)
(* again and again.                                                         *)
(***************************************************************************)
Recompute ==
    /\ pc = "constructed"
    /\ calls < MaxCalls
    /\ CallPerformAnalysis("constructed")

NextClient ==
    \/ Construct
    \/ Recompute

SpecClient == Init /\ [][NextClient]_vars

(***************************************************************************)
(* Vocabulary of the properties.                                           *)
(***************************************************************************)
Constructed == analyzer # <<>>

Returned == report # <<>>

Stats == report[1].stats

Table == report[1].df

CompiledIn == data_in = QUARTERLY_DATA /\ target_in = FromInt(TARGET_CAC)

\* |a - c| <= tol, a finite
Within(a, c, tol) == IsFinite(a) /\ Leq(AbsRat(Sub(a, c)), tol)

FileNames == [i \in 1..Len(files) |-> files[i].name]

(***************************************************************************)
(* C1: for the compiled-in observations 225.6, 228.97, 234.24, 234.71 the  *)
(* average the constructor caches and the report's 'Mean CAC' are both the *)
(* arithmetic average (four times the mean is the sum 923.52) and lie      *)
(* within 0.01 of 230.88.                                                  *)
(***************************************************************************)
C1_CompiledMean ==
    data_in = QUARTERLY_DATA =>
        /\ Constructed =>
              /\ Mul(analyzer[1].average_cac, FromInt(4)) = Rat(92352, 100)
              /\ Within(analyzer[1].average_cac, Rat(23088, 100), Rat(1, 100))
        /\ Returned =>
              /\ Mul(Stats.Mean_CAC, FromInt(4)) = Rat(92352, 100)
              /\ Within(Stats.Mean_CAC, Rat(23088, 100), Rat(1, 100))

C1_Witness ==
    /\ data_in = QUARTERLY_DATA
    /\ Returned
    /\ Constructed
    /\ Stats.Mean_CAC = analyzer[1].average_cac

(***************************************************************************)
(* C2: 'Standard Deviation' is the population standard deviation: for      *)
(* every non-empty observation sequence x of length N its square v is      *)
(* the sum of squared deviations from the mean divided by N, stated here   *)
(* as N^2 * v = N * sum(x^2) - sum(x)^2; for the compiled-in observations  *)
(* 4 * v = 57.485, v = 14.37125.                                           *)
(***************************************************************************)
C2_PopulationStd ==
    Returned =>
        LET x == data_in.CAC
            N == FromInt(Len(x))
            v == Stats.Standard_Deviation[2]
            sq == [i \in 1..Len(x) |-> Mul(x[i], x[i])]
        IN  /\ IsFinite(v)
            /\ Stats.Standard_Deviation[1] = Sign(v)
            /\ Mul(Mul(N, N), v) = Sub(Mul(N, SumSeq(sq)), Mul(SumSeq(x), SumSeq(x)))
            /\ data_in = QUARTERLY_DATA =>
                  /\ Mul(v, FromInt(4)) = Rat(57485, 1000)
                  /\ v = Rat(1437125, 100000)

C2_Witness ==
    /\ Returned
    /\ data_in = QUARTERLY_DATA
    /\ Stats.Standard_Deviation = <<1, Rat(1437125, 100000)>>

(***************************************************************************)
(* C3: in the report, 'Total Gap from Target' is that report's 'Mean CAC'  *)
(* minus the target and, for a target other than zero, 'Percentage Above   *)
(* Target' is (gap / target) * 100; for the compiled-in inputs the gap is  *)
(* within 0.01 of 80.88 and the percentage within 0.05 of 53.9.            *)
(***************************************************************************)
C3_AggregateGap ==
    Returned =>
        /\ Stats.Total_Gap_from_Target = Sub(Stats.Mean_CAC, target_in)
        /\ target_in # Zero =>
              Mul(Stats.Percentage_Above_Target, target_in)
                 = Mul(Stats.Total_Gap_from_Target, FromInt(100))
        /\ CompiledIn =>
              /\ Within(Stats.Total_Gap_from_Target, Rat(8088, 100), Rat(1, 100))
              /\ Within(Stats.Percentage_Above_Target, Rat(539, 10), Rat(5, 100))

C3_Witness ==
    /\ Returned
    /\ CompiledIn
    /\ Stats.Total_Gap_from_Target = Rat(8088, 100)
    /\ Stats.Percentage_Above_Target = Rat(5392, 100)

(***************************************************************************)
(* C4, as claimed: if the observation set is empty or the target is zero   *)
(* the run aborts: perform_analysis returns no report, no chart file is    *)
(* written and 'ANALYSIS COMPLETE' is never printed.                       *)
(***************************************************************************)
Printed(heading) == \E i \in 1..Len(console) : console[i] = heading

C4_AbortsOnEmptyOrZeroTarget ==
    (data_in.CAC = <<>> \/ target_in = Zero) =>
        /\ ~Returned
        /\ files = <<>>
        /\ pc # "done"
        /\ ~Printed("ANALYSIS COMPLETE")

(***************************************************************************)
(* C4, amended: if the observation set is empty, perform_analysis raises   *)
(* (np.min of an empty array) and the run aborts there: no report, no      *)
(* chart file, no 'ANALYSIS COMPLETE'.  If the target is zero and the      *)
(* observation set is not empty, nothing fails: perform_analysis returns   *)
(* a table and a report whose percentages above target are infinite or     *)
(* not-a-number, and the run goes on to the charts.                        *)
(***************************************************************************)
C4_EmptyAbortsZeroTargetGoesOn ==
    /\ data_in.CAC = <<>> =>
          /\ ~Returned
          /\ files = <<>>
          /\ pc \in {"main", "constructed", "aborted"}
          /\ ~Printed("ANALYSIS COMPLETE")
    /\ (data_in.CAC # <<>> /\ target_in = Zero) =>
          /\ pc \notin {"main", "constructed"} => Returned
          /\ Returned =>
                /\ ~IsFinite(Stats.Percentage_Above_Target)
                /\ \A i \in 1..Len(Table.Percentage_Above_Target) :
                      ~IsFinite(Table.Percentage_Above_Target[i])

C4_Witness ==
    /\ data_in.CAC # <<>>
    /\ target_in = Zero
    /\ pc = "done"
    /\ Len(files) = 3
    /\ Stats.Percentage_Above_Target = PosInf

(***************************************************************************)
(* C5: calling perform_analysis again on the same analyzer returns a       *)
(* table and a report equal, field by field, to what the first call        *)
(* returned.  (Checked under SpecClient.)                                  *)
(***************************************************************************)
C5_Idempotent ==
    calls >= 1 => report = first

C5_Witness ==
    /\ calls = MaxCalls
    /\ calls >= 2
    /\ report = first
    /\ data_in.CAC # Sorted(data_in.CAC)

(***************************************************************************)
(* C6, as claimed, for the program's own run (the compiled-in observations *)
(* and target): for every observation the table's gap is observation -     *)
(* target and its 'Percentage_Above_Target' is (gap / target) * 100.       *)
(***************************************************************************)
C6_ExactPercentage ==
    (Returned /\ CompiledIn) =>
        \A i \in 1..Len(data_in.CAC) :
            /\ Table.Gap_to_Target[i] = Sub(data_in.CAC[i], target_in)
            /\ Table.Percentage_Above_Target[i]
                  = Mul(Div(Table.Gap_to_Target[i], target_in), FromInt(100))

(***************************************************************************)
(* C6, amended: for every observation the table's gap is observation -     *)
(* target, and for a target other than zero its 'Percentage_Above_Target'  *)
(* is (gap / target) * 100 rounded to two decimal places: a multiple of    *)
(* 0.01 at most 0.005 away from (gap / target) * 100.                      *)
(***************************************************************************)
C6_RoundedPercentage ==
    Returned =>
        \A i \in 1..Len(data_in.CAC) :
            /\ Table.Gap_to_Target[i] = Sub(data_in.CAC[i], target_in)
            /\ target_in # Zero =>
                  LET p == Table.Percentage_Above_Target[i]
                      exact == Mul(Div(Table.Gap_to_Target[i], target_in), FromInt(100))
                  IN  /\ IsFinite(p)
                      /\ Mul(p, FromInt(100))[2] = 1
                      /\ Leq(AbsRat(Sub(p, exact)), Rat(5, 1000))

C6_Witness ==
    /\ Returned
    /\ CompiledIn
    /\ Table.Gap_to_Target[2] = Rat(7897, 100)
    /\ Table.Percentage_Above_Target[2] = Rat(5265, 100)

(***************************************************************************)
(* C7: 'Median CAC' is the middle value of the sorted observations, or the *)
(* average of the two middle values when the count is even; for the        *)
(* compiled-in observations it is (228.97 + 234.24) / 2 = 231.605.  The    *)
(* k-th smallest value v is told by counting: fewer than k observations    *)
(* are below v and at least k are at most v.                               *)
(***************************************************************************)
IsKthSmallest(v, k, x) ==
    /\ \E i \in 1..Len(x) : x[i] = v
    /\ Cardinality({i \in 1..Len(x) : Less(x[i], v)}) < k
    /\ Cardinality({i \in 1..Len(x) : Leq(x[i], v)}) >= k

C7_Median ==
    Returned =>
        LET x == data_in.CAC
            n == Len(x)
            m == Stats.Median_CAC
        IN  /\ n % 2 = 1 => IsKthSmallest(m, (n + 1) \div 2, x)
            /\ n % 2 = 0 =>
                  \E i, j \in 1..n :
                      /\ IsKthSmallest(x[i], n \div 2, x)
                      /\ IsKthSmallest(x[j], n \div 2 + 1, x)
                      /\ Mul(m, FromInt(2)) = Add(x[i], x[j])
            /\ data_in = QUARTERLY_DATA => m = Rat(231605, 1000)

C7_Witness ==
    /\ Returned
    /\ data_in = QUARTERLY_DATA
    /\ Mul(Stats.Median_CAC, FromInt(2)) = Add(Rat(22897, 100), Rat(23424, 100))

(***************************************************************************)
(* C8: for an observation set of exactly one observation x the report has  *)
(* standard deviation 0 and range 0, and min = max = mean = median = x.    *)
(***************************************************************************)
C8_SingleObservation ==
    (Returned /\ Len(data_in.CAC) = 1) =>
        LET x == data_in.CAC[1]
        IN  /\ Stats.Standard_Deviation = <<0, Zero>>
            /\ Stats.Range = Zero
            /\ Stats.Min_CAC = x
            /\ Stats.Max_CAC = x
            /\ Stats.Mean_CAC = x
            /\ Stats.Median_CAC = x

C8_Witness ==
    /\ Returned
    /\ data_in.CAC = <<FromInt(1)>>
    /\ Stats.Standard_Deviation = <<0, Zero>>
    /\ Stats.Range = Zero

(***************************************************************************)
(* C9: the report is computed once and never changed afterwards: once      *)
(* perform_analysis has returned, no step of main changes the report or    *)
(* the table or calls perform_analysis again, and no step after the        *)
(* constructor changes the observation set, the target or the cached       *)
(* average.                                                                *)
(***************************************************************************)
C9_ReportNeverMutated ==
    [][/\ Returned => (report' = report /\ calls' = calls)
       /\ calls' <= 1
       /\ Constructed => analyzer' = analyzer
       /\ data_in' = data_in
       /\ target_in' = target_in]_vars

C9_Witness ==
    /\ pc = "done"
    /\ Returned
    /\ calls = 1
    /\ Len(files) = 3
    /\ analyzer = <<CACAnalysis_init(data_in, target_in)>>

(***************************************************************************)
(* C10: a run of main is a straight line: constructor, report, trend       *)
(* chart, gap chart, dashboard, narrative, 'ANALYSIS COMPLETE'.  At every  *)
(* position the files written and the headings printed are exactly those   *)
(* of the steps before it; completion is reached only with the three chart *)
(* files written; a run that aborted wrote a prefix of the three files,    *)
(* printed neither the narrative nor the completion, and wrote nothing     *)
(* after the failed step.                                                  *)
(***************************************************************************)
AllFiles == <<TREND_FILE, GAP_FILE, DASHBOARD_FILE>>

AllHeadings ==
    <<"Starting Financial Services CAC Analysis...",
      "Verification - Average CAC",
      "FINANCIAL SERVICES CAC ANALYSIS - 2024",
      "Statistical Analysis:",
      "Trend analysis chart saved",
      "Gap analysis chart saved",
      "Performance dashboard saved",
      "BUSINESS INSIGHTS & RECOMMENDATIONS",
      "ANALYSIS COMPLETE">>

At(position, nfiles, nheadings) ==
    pc = position =>
        /\ FileNames = SubSeq(AllFiles, 1, nfiles)
        /\ console = SubSeq(AllHeadings, 1, nheadings)
        /\ Constructed <=> position # "main"
        /\ Returned <=> position \notin {"main", "constructed"}

C10_StraightLine ==
    /\ pc \in {"main", "constructed", "trend", "gap", "dashboard", "insights",
               "summary", "done", "aborted"}
    /\ At("main", 0, 0)
    /\ At("constructed", 0, 2)
    /\ At("trend", 0, 4)
    /\ At("gap", 1, 5)
    /\ At("dashboard", 2, 6)
    /\ At("insights", 3, 7)
    /\ At("summary", 3, 8)
    /\ At("done", 3, 9)
    /\ pc = "aborted" =>
          /\ Constructed
          /\ \E n \in 0..2 :
                /\ FileNames = SubSeq(AllFiles, 1, n)
                /\ console = SubSeq(AllHeadings, 1, IF Returned THEN 4 + n ELSE 3)
                /\ ~Returned => n = 0
    /\ Printed("ANALYSIS COMPLETE") => FileNames = AllFiles

C10_Witness ==
    /\ pc = "aborted"
    /\ FileNames = <<TREND_FILE>>
    /\ Returned
    /\ ~Printed("ANALYSIS COMPLETE")

====
